---- MODULE Spec2Model ----
(***************************************************************************)
(* Model of aws/resource_aws_ssm_association.go: the four lifecycle        *)
(* handlers of the aws_ssm_association resource (Create, Read, Update,     *)
(* Delete), the shape converters they use, the record (schema.ResourceData)*)
(* they read and write, and the remote SSM service they call.              *)
(*                                                                         *)
(* Encoding of Go values:                                                  *)
(*   *string                 a string, or NilStr for the nil pointer       *)
(*   record string field     a string, "" being the zero value (not set)   *)
(*   map[string]T            a function on a set of keys, <<>> when empty  *)
(*                           (a nil map and an empty map are not told      *)
(*                           apart: Go reads both the same way)            *)
(*   []T                     a sequence                                    *)
(*   *struct                 <<>> for nil, <<s>> for a pointer to s        *)
(***************************************************************************)
EXTENDS Integers, Sequences, FiniteSets, TLC

VARIABLES
    d,          \* the record handed to a handler: [id, old, new]
    remote,     \* the remote service: association id -> <<>> or <<descriptor>>
    pc,         \* "idle": the record is persisted; "planned": a handler may run
    op,         \* the step taken last: "Init", "Plan", "Refresh" or a handler
    result,     \* what the last handler returned: "none", "ok", "error: ...", "panic"
    calls,      \* the remote calls the last handler issued, in order
    ops,        \* how many handlers have run
    conv        \* a converter applied on its own: [fn, arg], and res once applied

vars == <<d, remote, pc, op, result, calls, ops, conv>>

-----------------------------------------------------------------------------
(* Bounds of the model *)

\* most handler invocations of one behaviour
MaxOps == 3

\* most target blocks of a declared configuration (the schema allows 5)
MaxTargets == 1

-----------------------------------------------------------------------------
(* Values *)

NilStr == "<nil>"

\* the identifiers the service assigns, in the order it assigns them
IdOrder == <<"assoc-1", "assoc-2">>
Ids == {IdOrder[k] : k \in DOMAIN IdOrder}

NameVals == {"doc1", "doc2"}
InstanceIdVals == {"", "i-1"}
AssociationNameVals == {"", "web"}
DocumentVersionVals == {"", "1"}
ScheduleExpressionVals == {"", "rate(1 day)"}
ParamKeys == {"p"}
ParamVals == {"a", "b"}
ParametersVals == UNION {[ks -> ParamVals] : ks \in SUBSET ParamKeys}
TargetBlocks == {[key |-> "tag:env", values |-> <<"prod">>]}
TargetsVals == UNION {[1..n -> TargetBlocks] : n \in 0..MaxTargets}
OutputLocationVals ==
    {<<>>} \cup {<<[s3_bucket_name |-> "b", s3_key_prefix |-> p]>> : p \in {"", "logs"}}

\* the value every field of a record has when nothing is known of it
ZeroFields ==
    [name |-> "", instance_id |-> "", association_name |-> "",
     association_id |-> "", document_version |-> "", schedule_expression |-> "",
     parameters |-> <<>>, targets |-> <<>>, output_location |-> <<>>]

\* the six fields Update tracks
TrackedStrings == {"association_name", "document_version", "schedule_expression"}
TrackedFields == TrackedStrings \cup {"parameters", "output_location", "targets"}

\* a declared configuration: association_id is computed, never declared
IsSetIn(c, f) ==
    IF f \in {"parameters"} THEN DOMAIN c[f] # {}
    ELSE IF f \in {"targets", "output_location"} THEN Len(c[f]) > 0
    ELSE c[f] # ""

OptionalFields == TrackedFields \cup {"instance_id"}

\* the declared configurations: those that set no optional field or a single
\* one, and those that set them all (with one value of parameters and of
\* output_location)
Configs ==
    {c \in [name : NameVals, instance_id : InstanceIdVals,
            association_name : AssociationNameVals, association_id : {""},
            document_version : DocumentVersionVals,
            schedule_expression : ScheduleExpressionVals,
            parameters : ParametersVals, targets : TargetsVals,
            output_location : OutputLocationVals] :
        \/ \A f, g \in OptionalFields : IsSetIn(c, f) /\ IsSetIn(c, g) => f = g
        \/ /\ \A f \in OptionalFields : IsSetIn(c, f)
           /\ c.parameters = [p |-> "a"]
           /\ c.output_location[1].s3_key_prefix = "logs"}

-----------------------------------------------------------------------------
(* The record: schema.ResourceData as the handlers use it *)

\* d.GetOk(key): the value is set when it is not the zero value of its type
GetOkString(v) == v # ""
GetOkMap(v) == DOMAIN v # {}
GetOkList(v) == Len(v) > 0

\* d.HasChange(key): the planned value differs from the previously observed one
HasChange(rec, key) == rec.old[key] # rec.new[key]

\* d.Set(key, p) for a string field and a *string: nil writes the zero value
SetString(p) == IF p = NilStr THEN "" ELSE p

-----------------------------------------------------------------------------
(* Shape converters *)

\* a Go slice argument: the nil slice and the empty slice are different inputs
NilSlice == [isNil |-> TRUE, elems |-> <<>>]
Slice(elems) == [isNil |-> FALSE, elems |-> elems]

\* a variant of expandSSMDocumentParameters: a key whose value is the empty
\* string is left out
expandSSMDocumentParameters_dropsEmpty(params) ==
    [k \in {j \in DOMAIN params : params[j] # ""} |-> <<params[k]>>]

\* expandSSMDocumentParameters: each value becomes a one-element sequence
expandSSMDocumentParameters(params) ==
    [k \in DOMAIN params |-> <<params[k]>>]

\* expandAwsSsmTargets (structure.go): each block becomes a Target, in order
expandAwsSsmTargets(targets) ==
    [i \in DOMAIN targets |-> [Key |-> targets[i].key, Values |-> targets[i].values]]

\* flattenAwsSsmTargets (structure.go): each Target becomes a block, in order
flattenAwsSsmTargets(targets) ==
    [i \in DOMAIN targets |-> [key |-> targets[i].Key, values |-> targets[i].Values]]

\* expandSSMAssociationOutputLocation: nil for the nil slice, config[0] otherwise
\* (indexing an empty slice panics); the key prefix is copied when the block
\* has the key, whatever its value
expandSSMAssociationOutputLocation(config) ==
    IF config.isNil THEN [panics |-> FALSE, ptr |-> <<>>]
    ELSE IF Len(config.elems) = 0 THEN [panics |-> TRUE, ptr |-> <<>>]
    ELSE LET locationConfig == config.elems[1]
         IN  [panics |-> FALSE,
              ptr |-> <<[OutputS3BucketName |-> locationConfig["s3_bucket_name"],
                         OutputS3KeyPrefix |->
                             IF "s3_key_prefix" \in DOMAIN locationConfig
                             THEN locationConfig["s3_key_prefix"]
                             ELSE NilStr]>>]

\* flattenAwsSsmAssociationOutoutLocation: nil for nil, else one block that has
\* the s3_key_prefix key only when the remote object has a key prefix
flattenAwsSsmAssociationOutoutLocation(location) ==
    IF location = <<>> THEN NilSlice
    ELSE LET keys == {"s3_bucket_name"} \cup
                     (IF location[1].OutputS3KeyPrefix # NilStr
                      THEN {"s3_key_prefix"} ELSE {})
         IN  Slice(<<[k \in keys |->
                        IF k = "s3_bucket_name"
                        THEN location[1].OutputS3BucketName
                        ELSE location[1].OutputS3KeyPrefix]>>)

\* d.Set("output_location", blocks): the record keeps every key of the block
\* schema, a key the written block lacks reads back as the zero value
SetOutputLocation(blocks) ==
    [i \in DOMAIN blocks.elems |->
        [s3_bucket_name |-> blocks.elems[i]["s3_bucket_name"],
         s3_key_prefix |-> IF "s3_key_prefix" \in DOMAIN blocks.elems[i]
                           THEN blocks.elems[i]["s3_key_prefix"] ELSE ""]]

\* d.Set("parameters", association.Parameters), the error it returns discarded:
\* the field is a map of strings and the value a map of string sequences, so
\* the write of a non-empty map is rejected and the field keeps its value; an
\* empty map is written
SetParameters(current, parameters) ==
    IF DOMAIN parameters = {} THEN <<>> ELSE current

-----------------------------------------------------------------------------
(* Requests *)

OptString(v) == IF GetOkString(v) THEN v ELSE NilStr

\* ssm.CreateAssociationInput as Create builds it: name, and each optional
\* field that is set
CreateAssociationInput(get) ==
    [Name |-> get.name,
     AssociationName |-> OptString(get.association_name),
     InstanceId |-> OptString(get.instance_id),
     DocumentVersion |-> OptString(get.document_version),
     ScheduleExpression |-> OptString(get.schedule_expression),
     Parameters |-> IF GetOkMap(get.parameters)
                    THEN expandSSMDocumentParameters(get.parameters) ELSE <<>>,
     Targets |-> IF GetOkList(get.targets)
                 THEN expandAwsSsmTargets(get.targets) ELSE <<>>,
     OutputLocation |-> IF GetOkList(get.output_location)
                        THEN expandSSMAssociationOutputLocation(
                                 Slice(get.output_location)).ptr
                        ELSE <<>>]

\* a variant of hasChanges: the request is always filled in
hasChanges_always(rec) == TRUE

\* hasChanges of Update: one of the six tracked fields changed
hasChanges(rec) ==
    \/ HasChange(rec, "association_name")
    \/ HasChange(rec, "document_version")
    \/ HasChange(rec, "schedule_expression")
    \/ HasChange(rec, "parameters")
    \/ HasChange(rec, "output_location")
    \/ HasChange(rec, "targets")

\* a variant of UpdateAssociationInput: a field is sent when it changed, not
\* when it is set
UpdateAssociationInput_setIfChanged(rec) ==
    LET get == rec.new
        sent(key) == HasChange(rec, key)
    IN  [AssociationId |-> get.association_id,
         AssociationName |-> IF sent("association_name")
                             THEN OptString(get.association_name) ELSE NilStr,
         DocumentVersion |-> IF sent("document_version")
                             THEN OptString(get.document_version) ELSE NilStr,
         ScheduleExpression |-> IF sent("schedule_expression")
                                THEN OptString(get.schedule_expression) ELSE NilStr,
         Parameters |-> IF sent("parameters") /\ GetOkMap(get.parameters)
                        THEN expandSSMDocumentParameters(get.parameters) ELSE <<>>,
         Targets |-> IF sent("targets") /\ GetOkList(get.targets)
                     THEN expandAwsSsmTargets(get.targets) ELSE <<>>,
         OutputLocation |-> IF sent("output_location") /\ GetOkList(get.output_location)
                            THEN expandSSMAssociationOutputLocation(
                                     Slice(get.output_location)).ptr
                            ELSE <<>>]

\* ssm.UpdateAssociationInput as Update builds it: keyed by association_id; the
\* optional fields are filled in only when something changed
UpdateAssociationInput(rec) ==
    LET get == rec.new
        changed == hasChanges(rec)
    IN  [AssociationId |-> get.association_id,
         AssociationName |-> IF changed THEN OptString(get.association_name) ELSE NilStr,
         DocumentVersion |-> IF changed THEN OptString(get.document_version) ELSE NilStr,
         ScheduleExpression |->
             IF changed THEN OptString(get.schedule_expression) ELSE NilStr,
         Parameters |-> IF changed /\ GetOkMap(get.parameters)
                        THEN expandSSMDocumentParameters(get.parameters) ELSE <<>>,
         Targets |-> IF changed /\ GetOkList(get.targets)
                     THEN expandAwsSsmTargets(get.targets) ELSE <<>>,
         OutputLocation |-> IF changed /\ GetOkList(get.output_location)
                            THEN expandSSMAssociationOutputLocation(
                                     Slice(get.output_location)).ptr
                            ELSE <<>>]

-----------------------------------------------------------------------------
(* The remote service, as the handlers reach it through ssmconn.  A call      *)
(* either fails (fault), answers without what the handler expects, or does    *)
(* what it is asked: create stores what the request carries, update replaces  *)
(* the stored configuration by what the request carries, delete removes it.   *)
(* No other actor changes what the service stores.                            *)

ErrCodeAssociationDoesNotExist == "AssociationDoesNotExist"
ErrCodeInternalServerError == "InternalServerError"

CreateFaults == {"none", "error", "nodesc", "noid"}
DescribeFaults == {"none", "error", "notfound", "nodesc"}
UpdateFaults == {"none", "error"}
DeleteFaults == {"none", "error"}

Stored(st, key) == key \in Ids /\ st[key] # <<>>

\* ssmconn.CreateAssociation: [resp, remote]
CreateAssociation(st, input, fault, newId) ==
    LET desc == [AssociationId |-> newId,
                 Name |-> input.Name,
                 InstanceId |-> input.InstanceId,
                 AssociationName |-> input.AssociationName,
                 DocumentVersion |-> input.DocumentVersion,
                 ScheduleExpression |-> input.ScheduleExpression,
                 Parameters |-> input.Parameters,
                 Targets |-> input.Targets,
                 OutputLocation |-> input.OutputLocation]
        created == [st EXCEPT ![newId] = <<desc>>]
    IN  CASE fault = "error" ->
                [resp |-> [err |-> ErrCodeInternalServerError, desc |-> <<>>],
                 remote |-> st]
          [] fault = "nodesc" ->
                [resp |-> [err |-> "", desc |-> <<>>], remote |-> st]
          [] fault = "noid" ->
                [resp |-> [err |-> "", desc |-> <<[desc EXCEPT !.AssociationId = NilStr]>>],
                 remote |-> st]
          [] OTHER ->
                [resp |-> [err |-> "", desc |-> <<desc>>], remote |-> created]

\* ssmconn.DescribeAssociation: the response
DescribeAssociation(st, input, fault) ==
    CASE fault = "error" -> [err |-> ErrCodeInternalServerError, desc |-> <<>>]
      [] fault = "notfound" -> [err |-> ErrCodeAssociationDoesNotExist, desc |-> <<>>]
      [] fault = "nodesc" -> [err |-> "", desc |-> <<>>]
      [] OTHER ->
            IF Stored(st, input.AssociationId)
            THEN [err |-> "", desc |-> st[input.AssociationId]]
            ELSE [err |-> ErrCodeAssociationDoesNotExist, desc |-> <<>>]

\* ssmconn.UpdateAssociation: [resp, remote]; the new revision holds what the
\* request carries and nothing of the revision before it
UpdateAssociation(st, input, fault) ==
    IF fault = "error"
    THEN [resp |-> [err |-> ErrCodeInternalServerError], remote |-> st]
    ELSE IF ~Stored(st, input.AssociationId)
    THEN [resp |-> [err |-> ErrCodeAssociationDoesNotExist], remote |-> st]
    ELSE LET was == st[input.AssociationId][1]
             now == [AssociationId |-> was.AssociationId,
                     Name |-> was.Name,
                     InstanceId |-> was.InstanceId,
                     AssociationName |-> input.AssociationName,
                     DocumentVersion |-> input.DocumentVersion,
                     ScheduleExpression |-> input.ScheduleExpression,
                     Parameters |-> input.Parameters,
                     Targets |-> input.Targets,
                     OutputLocation |-> input.OutputLocation]
         IN  [resp |-> [err |-> ""],
              remote |-> [st EXCEPT ![input.AssociationId] = <<now>>]]

\* ssmconn.DeleteAssociation: [resp, remote]
DeleteAssociation(st, input, fault) ==
    IF fault = "error"
    THEN [resp |-> [err |-> ErrCodeInternalServerError], remote |-> st]
    ELSE IF ~Stored(st, input.AssociationId)
    THEN [resp |-> [err |-> ErrCodeAssociationDoesNotExist], remote |-> st]
    ELSE [resp |-> [err |-> ""],
          remote |-> [st EXCEPT ![input.AssociationId] = <<>>]]

\* isAWSErr(err, code, ""): the error carries this code
isAWSErr(err, code) == err = code

\* a remote call as the log keeps it: the request, the response, and the
\* record as it was when the call was issued
Call(api, input, resp, rec) ==
    [api |-> api, input |-> input, resp |-> resp, rec |-> rec]

-----------------------------------------------------------------------------
(* The handlers.  Each yields [d, result, calls, remote]: the record as the   *)
(* handler leaves it, what it returns, the remote calls it issued and the     *)
(* remote service after them.                                                 *)

Ok == "ok"
Panic == "panic"
ErrCreate == "error: Error creating SSM association"
ErrRead == "error: Error reading SSM association"
ErrUpdate == "error: Error updating SSM association"
ErrDelete == "error: Error deleting SSM association"
ErrNilDescription == "error: AssociationDescription was nil"
Errors == {ErrCreate, ErrRead, ErrUpdate, ErrDelete, ErrNilDescription}

\* the d.Set calls of Read: every observed field is written from the descriptor
ReadFields(fields, association) ==
    [association_name |-> SetString(association.AssociationName),
     instance_id |-> SetString(association.InstanceId),
     name |-> SetString(association.Name),
     parameters |-> SetParameters(fields.parameters, association.Parameters),
     association_id |-> SetString(association.AssociationId),
     schedule_expression |-> SetString(association.ScheduleExpression),
     document_version |-> SetString(association.DocumentVersion),
     targets |-> flattenAwsSsmTargets(association.Targets),
     output_location |-> SetOutputLocation(
         flattenAwsSsmAssociationOutoutLocation(association.OutputLocation))]

\* a variant of Read: the not-found error is returned like any other error
resourceAwsSsmAssociationRead_notFoundIsError(rec, st, fault) ==
    LET params == [AssociationId |-> rec.id]
        resp == DescribeAssociation(st, params, fault)
        issued == <<Call("DescribeAssociation", params, resp, rec)>>
    IN  IF resp.err # ""
        THEN [d |-> rec, result |-> ErrRead, calls |-> issued, remote |-> st]
        ELSE IF resp.desc = <<>>
        THEN [d |-> rec, result |-> ErrNilDescription, calls |-> issued, remote |-> st]
        ELSE [d |-> [rec EXCEPT !.new = ReadFields(rec.new, resp.desc[1])],
              result |-> Ok, calls |-> issued, remote |-> st]

\* a variant of Read: a response without a descriptor is taken for not-found
resourceAwsSsmAssociationRead_nilIsNotFound(rec, st, fault) ==
    LET params == [AssociationId |-> rec.id]
        resp == DescribeAssociation(st, params, fault)
        issued == <<Call("DescribeAssociation", params, resp, rec)>>
    IN  IF resp.err # ""
        THEN IF isAWSErr(resp.err, ErrCodeAssociationDoesNotExist)
             THEN [d |-> [rec EXCEPT !.id = ""], result |-> Ok,
                   calls |-> issued, remote |-> st]
             ELSE [d |-> rec, result |-> ErrRead, calls |-> issued, remote |-> st]
        ELSE IF resp.desc = <<>>
        THEN [d |-> [rec EXCEPT !.id = ""], result |-> Ok,
              calls |-> issued, remote |-> st]
        ELSE [d |-> [rec EXCEPT !.new = ReadFields(rec.new, resp.desc[1])],
              result |-> Ok, calls |-> issued, remote |-> st]

\* a variant of Read: a DescribeAssociation that fails, but not with
\* not-found, is issued a second time
resourceAwsSsmAssociationRead_retries(rec, st, fault) ==
    LET params == [AssociationId |-> rec.id]
        resp == DescribeAssociation(st, params, fault)
        again == DescribeAssociation(st, params, "none")
        issued == <<Call("DescribeAssociation", params, resp, rec)>>
        reissued == issued \o <<Call("DescribeAssociation", params, again, rec)>>
    IN  IF resp.err # ""
        THEN IF isAWSErr(resp.err, ErrCodeAssociationDoesNotExist)
             THEN [d |-> [rec EXCEPT !.id = ""], result |-> Ok,
                   calls |-> issued, remote |-> st]
             ELSE IF again.err # ""
             THEN [d |-> rec, result |-> ErrRead, calls |-> reissued, remote |-> st]
             ELSE [d |-> [rec EXCEPT !.new = ReadFields(rec.new, again.desc[1])],
                   result |-> Ok, calls |-> reissued, remote |-> st]
        ELSE IF resp.desc = <<>>
        THEN [d |-> rec, result |-> ErrNilDescription, calls |-> issued, remote |-> st]
        ELSE [d |-> [rec EXCEPT !.new = ReadFields(rec.new, resp.desc[1])],
              result |-> Ok, calls |-> issued, remote |-> st]

resourceAwsSsmAssociationRead(rec, st, fault) ==
    LET params == [AssociationId |-> rec.id]
        resp == DescribeAssociation(st, params, fault)
        issued == <<Call("DescribeAssociation", params, resp, rec)>>
    IN  IF resp.err # ""
        THEN IF isAWSErr(resp.err, ErrCodeAssociationDoesNotExist)
             THEN [d |-> [rec EXCEPT !.id = ""], result |-> Ok,
                   calls |-> issued, remote |-> st]
             ELSE [d |-> rec, result |-> ErrRead, calls |-> issued, remote |-> st]
        ELSE IF resp.desc = <<>>
        THEN [d |-> rec, result |-> ErrNilDescription, calls |-> issued, remote |-> st]
        ELSE [d |-> [rec EXCEPT !.new = ReadFields(rec.new, resp.desc[1])],
              result |-> Ok, calls |-> issued, remote |-> st]

\* a variant of SetIdentifier: association_id is left for Read to write
SetIdentifier_idOnly(rec, x) ==
    [rec EXCEPT !.id = x]

\* a variant of SetIdentifier: association_id is written from the identifier
\* the record had before d.SetId
SetIdentifier_stale(rec, x) ==
    [rec EXCEPT !.id = x, !.new.association_id = rec.id]

\* d.SetId(x) followed by d.Set("association_id", x)
SetIdentifier(rec, x) ==
    [rec EXCEPT !.id = x, !.new.association_id = SetString(x)]

\* a variant of Create: a failed CreateAssociation is logged and Create goes on
\* to the Read
resourceAwsSsmAssociationCreate_goesOn(rec, st, fault, newId, readFault) ==
    LET associationInput == CreateAssociationInput(rec.new)
        created == CreateAssociation(st, associationInput, fault, newId)
        resp == created.resp
        issued == <<Call("CreateAssociation", associationInput, resp, rec)>>
        read == resourceAwsSsmAssociationRead(
                    IF resp.desc = <<>> \/ resp.desc[1].AssociationId = NilStr
                    THEN rec
                    ELSE SetIdentifier(rec, resp.desc[1].AssociationId),
                    created.remote, readFault)
    IN  [d |-> read.d, result |-> read.result,
         calls |-> issued \o read.calls, remote |-> read.remote]

\* a variant of Create: the identifier is taken back when the Read fails
resourceAwsSsmAssociationCreate_allOrNothing(rec, st, fault, newId, readFault) ==
    LET associationInput == CreateAssociationInput(rec.new)
        created == CreateAssociation(st, associationInput, fault, newId)
        resp == created.resp
        issued == <<Call("CreateAssociation", associationInput, resp, rec)>>
    IN  IF resp.err # ""
        THEN [d |-> rec, result |-> ErrCreate, calls |-> issued,
              remote |-> created.remote]
        ELSE IF resp.desc = <<>>
        THEN [d |-> rec, result |-> ErrNilDescription, calls |-> issued,
              remote |-> created.remote]
        ELSE IF resp.desc[1].AssociationId = NilStr
        THEN [d |-> rec, result |-> Panic, calls |-> issued,
              remote |-> created.remote]
        ELSE LET read == resourceAwsSsmAssociationRead(
                             SetIdentifier(rec, resp.desc[1].AssociationId),
                             created.remote, readFault)
             IN  [d |-> IF read.result \in Errors
                        THEN [read.d EXCEPT !.id = ""] ELSE read.d,
                  result |-> read.result,
                  calls |-> issued \o read.calls, remote |-> read.remote]

resourceAwsSsmAssociationCreate(rec, st, fault, newId, readFault) ==
    LET associationInput == CreateAssociationInput(rec.new)
        created == CreateAssociation(st, associationInput, fault, newId)
        resp == created.resp
        issued == <<Call("CreateAssociation", associationInput, resp, rec)>>
    IN  IF resp.err # ""
        THEN [d |-> rec, result |-> ErrCreate, calls |-> issued,
              remote |-> created.remote]
        ELSE IF resp.desc = <<>>
        THEN [d |-> rec, result |-> ErrNilDescription, calls |-> issued,
              remote |-> created.remote]
        ELSE IF resp.desc[1].AssociationId = NilStr
        THEN \* *resp.AssociationDescription.AssociationId of a nil pointer
             [d |-> rec, result |-> Panic, calls |-> issued,
              remote |-> created.remote]
        ELSE LET read == resourceAwsSsmAssociationRead(
                             SetIdentifier(rec, resp.desc[1].AssociationId),
                             created.remote, readFault)
             IN  [d |-> read.d, result |-> read.result,
                  calls |-> issued \o read.calls, remote |-> read.remote]

\* a variant of Update: the record is refreshed before the error is returned
resourceAwsSsmAssociationUpdate_refreshes(rec, st, fault, readFault) ==
    LET associationInput == UpdateAssociationInput(rec)
        updated == UpdateAssociation(st, associationInput, fault)
        issued == <<Call("UpdateAssociation", associationInput, updated.resp, rec)>>
        read == resourceAwsSsmAssociationRead(rec, updated.remote, readFault)
    IN  [d |-> read.d,
         result |-> IF updated.resp.err # "" THEN ErrUpdate ELSE read.result,
         calls |-> issued \o read.calls, remote |-> read.remote]

resourceAwsSsmAssociationUpdate(rec, st, fault, readFault) ==
    LET associationInput == UpdateAssociationInput(rec)
        updated == UpdateAssociation(st, associationInput, fault)
        issued == <<Call("UpdateAssociation", associationInput, updated.resp, rec)>>
    IN  IF updated.resp.err # ""
        THEN [d |-> rec, result |-> ErrUpdate, calls |-> issued,
              remote |-> updated.remote]
        ELSE LET read == resourceAwsSsmAssociationRead(rec, updated.remote, readFault)
             IN  [d |-> read.d, result |-> read.result,
                  calls |-> issued \o read.calls, remote |-> read.remote]

\* a variant of Delete: the error of DeleteAssociation is dropped
resourceAwsSsmAssociationDelete_swallows(rec, st, fault) ==
    LET params == [AssociationId |-> rec.new.association_id]
        deleted == DeleteAssociation(st, params, fault)
        issued == <<Call("DeleteAssociation", params, deleted.resp, rec)>>
    IN  [d |-> rec, result |-> Ok, calls |-> issued, remote |-> deleted.remote]

\* a variant of Delete: the identifier is cleared once the association is gone
resourceAwsSsmAssociationDelete_clearsId(rec, st, fault) ==
    LET params == [AssociationId |-> rec.new.association_id]
        deleted == DeleteAssociation(st, params, fault)
        issued == <<Call("DeleteAssociation", params, deleted.resp, rec)>>
    IN  IF deleted.resp.err # ""
        THEN [d |-> rec, result |-> ErrDelete, calls |-> issued,
              remote |-> deleted.remote]
        ELSE [d |-> [rec EXCEPT !.id = ""], result |-> Ok, calls |-> issued,
              remote |-> deleted.remote]

resourceAwsSsmAssociationDelete(rec, st, fault) ==
    LET params == [AssociationId |-> rec.new.association_id]
        deleted == DeleteAssociation(st, params, fault)
        issued == <<Call("DeleteAssociation", params, deleted.resp, rec)>>
    IN  IF deleted.resp.err # ""
        THEN [d |-> rec, result |-> ErrDelete, calls |-> issued,
              remote |-> deleted.remote]
        ELSE [d |-> rec, result |-> Ok, calls |-> issued, remote |-> deleted.remote]

-----------------------------------------------------------------------------
(* The framework around the handlers (schema.Resource): it persists the       *)
(* record a handler leaves, and builds the record of the next handler from    *)
(* the persisted state and the declared configuration, by the field modes     *)
(* of the schema.                                                             *)

\* the last handler destroyed the record: the framework drops its state
Destroyed == op = "Delete" /\ result = Ok

PersistedId == IF Destroyed THEN "" ELSE d.id

\* the persisted state: nothing without an identifier
PersistedState == IF PersistedId = "" THEN ZeroFields ELSE d.new

\* the planned value of each field: a computed field keeps the value of the
\* state when the configuration does not set it, association_id is never declared
Planned(state, cfg) ==
    [name |-> cfg.name,
     instance_id |-> cfg.instance_id,
     association_name |-> cfg.association_name,
     association_id |-> state.association_id,
     document_version |-> IF GetOkString(cfg.document_version)
                          THEN cfg.document_version ELSE state.document_version,
     schedule_expression |-> cfg.schedule_expression,
     parameters |-> IF GetOkMap(cfg.parameters)
                    THEN cfg.parameters ELSE state.parameters,
     targets |-> IF GetOkList(cfg.targets) THEN cfg.targets ELSE state.targets,
     output_location |-> cfg.output_location]

\* a variant of RequiresNew: instance_id is not marked ForceNew
RequiresNew_nameOnly(rec) ==
    HasChange(rec, "name")

\* ForceNew: a change of name or instance_id is applied by destroy and create
RequiresNew(rec) ==
    \/ HasChange(rec, "name")
    \/ HasChange(rec, "instance_id")

EmptyRemote == [i \in Ids |-> <<>>]

\* no converter is applied on its own while the handlers run
NoConv == [fn |-> "none"]

Init ==
    /\ d = [id |-> "", old |-> ZeroFields, new |-> ZeroFields]
    /\ remote = EmptyRemote
    /\ pc = "idle"
    /\ op = "Init"
    /\ result = "none"
    /\ calls = <<>>
    /\ ops = 0
    /\ conv = NoConv

\* the framework plans an apply of a declared configuration
Plan(cfg) ==
    /\ pc = "idle"
    /\ ops < MaxOps
    /\ d' = [id |-> PersistedId, old |-> PersistedState,
             new |-> Planned(PersistedState, cfg)]
    /\ pc' = "planned"
    /\ op' = "Plan"
    /\ result' = "none"
    /\ calls' = <<>>
    /\ UNCHANGED <<remote, ops, conv>>

\* the framework prepares a refresh: the record is the persisted state alone
PlanRefresh ==
    /\ pc = "idle"
    /\ ops < MaxOps
    /\ PersistedId # ""
    /\ d' = [id |-> PersistedId, old |-> PersistedState, new |-> PersistedState]
    /\ pc' = "planned"
    /\ op' = "Refresh"
    /\ result' = "none"
    /\ calls' = <<>>
    /\ UNCHANGED <<remote, ops, conv>>

Finish(handler, out) ==
    /\ d' = out.d
    /\ remote' = out.remote
    /\ result' = out.result
    /\ calls' = out.calls
    /\ op' = handler
    /\ pc' = "idle"
    /\ ops' = ops + 1
    /\ UNCHANGED conv

\* the identifier the service gives the next association it creates
FreeId(st) ==
    IdOrder[CHOOSE k \in DOMAIN IdOrder :
                /\ st[IdOrder[k]] = <<>>
                /\ \A j \in 1..(k - 1) : st[IdOrder[j]] # <<>>]

\* the framework creates a record that has no identifier
Create(fault, readFault) ==
    /\ pc = "planned"
    /\ op = "Plan"
    /\ d.id = ""
    /\ \E i \in Ids : remote[i] = <<>>
    /\ Finish("Create",
              resourceAwsSsmAssociationCreate(d, remote, fault, FreeId(remote),
                                              readFault))

\* the framework refreshes a record it holds
Read(fault) ==
    /\ pc = "planned"
    /\ op = "Refresh"
    /\ Finish("Read", resourceAwsSsmAssociationRead(d, remote, fault))

\* the framework applies a change that no ForceNew field is part of
Update(fault, readFault) ==
    /\ pc = "planned"
    /\ op = "Plan"
    /\ d.id # ""
    /\ ~RequiresNew(d)
    /\ Finish("Update", resourceAwsSsmAssociationUpdate(d, remote, fault, readFault))

\* the framework destroys a record, for good or to create it anew
Delete(fault) ==
    /\ pc = "planned"
    /\ d.id # ""
    /\ op = "Refresh" \/ RequiresNew(d)
    /\ Finish("Delete", resourceAwsSsmAssociationDelete(d, remote, fault))

Next ==
    \/ \E cfg \in Configs : Plan(cfg)
    \/ PlanRefresh
    \/ \E fault \in CreateFaults, readFault \in DescribeFaults :
          Create(fault, readFault)
    \/ \E fault \in DescribeFaults : Read(fault)
    \/ \E fault \in UpdateFaults, readFault \in DescribeFaults : Update(fault, readFault)
    \/ \E fault \in DeleteFaults : Delete(fault)

Spec == Init /\ [][Next]_vars

TypeOK ==
    /\ pc \in {"idle", "planned"}
    /\ op \in {"Init", "Plan", "Refresh", "Create", "Read", "Update", "Delete"}
    /\ result \in {"none", Ok, Panic} \cup Errors
    /\ ops \in 0..MaxOps

-----------------------------------------------------------------------------
(* The shape converters applied on their own: an input is drawn, then one     *)
(* converter, or one converter after the other, is applied to it.             *)

BucketVals == {"b", "c", "d"}
KeyPrefixVals == {"", "logs", "out"}

\* an output_location block as d.GetOk hands it to the handlers: every key of
\* the block schema is there, s3_key_prefix with the zero value when the
\* configuration does not declare it
RecordBlocks ==
    {[s3_bucket_name |-> b, s3_key_prefix |-> p] : b \in BucketVals, p \in KeyPrefixVals}

\* an output_location block that lacks the s3_key_prefix key
BareBlocks == {[s3_bucket_name |-> b] : b \in BucketVals}

\* the config argument of expandSSMAssociationOutputLocation: the nil slice,
\* the slice of zero blocks, or one block
DeclaredOutputLocations ==
    {NilSlice, Slice(<<>>)} \cup {Slice(<<b>>) : b \in RecordBlocks \cup BareBlocks}

\* the location argument of flattenAwsSsmAssociationOutoutLocation: nil, or an
\* object with a bucket name and a key prefix that may be nil
RemoteOutputLocations ==
    {<<>>} \cup {<<[OutputS3BucketName |-> b, OutputS3KeyPrefix |-> p]>> :
                    b \in BucketVals, p \in KeyPrefixVals \cup {NilStr}}

\* the params argument of expandSSMDocumentParameters
ParameterMaps == UNION {[ks -> {"", "a", "b"}] : ks \in SUBSET {"p", "q"}}

InitConv ==
    /\ d = [id |-> "", old |-> ZeroFields, new |-> ZeroFields]
    /\ remote = EmptyRemote
    /\ pc = "idle"
    /\ op = "Init"
    /\ result = "none"
    /\ calls = <<>>
    /\ ops = 0
    /\ \/ \E x \in DeclaredOutputLocations : conv = [fn |-> "declared", arg |-> x]
       \/ \E y \in RemoteOutputLocations : conv = [fn |-> "remote", arg |-> y]
       \/ \E m \in ParameterMaps : conv = [fn |-> "parameters", arg |-> m]

Applied(fn, res) ==
    /\ conv' = [fn |-> fn, arg |-> conv.arg, res |-> res]
    /\ UNCHANGED <<d, remote, pc, op, result, calls, ops>>

\* expandSSMAssociationOutputLocation(config)
ExpandOutputLocation ==
    /\ conv.fn = "declared"
    /\ Applied("expand", expandSSMAssociationOutputLocation(conv.arg))

\* flattenAwsSsmAssociationOutoutLocation(location)
FlattenOutputLocation ==
    /\ conv.fn = "remote"
    /\ Applied("flatten", flattenAwsSsmAssociationOutoutLocation(conv.arg))

\* flattenAwsSsmAssociationOutoutLocation(expandSSMAssociationOutputLocation(config)):
\* nothing is flattened when the expansion panics
ExpandThenFlatten ==
    /\ conv.fn = "declared"
    /\ LET expanded == expandSSMAssociationOutputLocation(conv.arg)
       IN  Applied("expand-flatten",
                   [panics |-> expanded.panics,
                    blocks |-> IF expanded.panics THEN NilSlice
                               ELSE flattenAwsSsmAssociationOutoutLocation(expanded.ptr)])

\* expandSSMAssociationOutputLocation(flattenAwsSsmAssociationOutoutLocation(location))
FlattenThenExpand ==
    /\ conv.fn = "remote"
    /\ Applied("flatten-expand",
               expandSSMAssociationOutputLocation(
                   flattenAwsSsmAssociationOutoutLocation(conv.arg)))

\* expandSSMDocumentParameters(params)
ExpandParameters ==
    /\ conv.fn = "parameters"
    /\ Applied("expand-parameters", expandSSMDocumentParameters(conv.arg))

NextConv ==
    \/ ExpandOutputLocation
    \/ FlattenOutputLocation
    \/ ExpandThenFlatten
    \/ FlattenThenExpand
    \/ ExpandParameters

SpecConv == InitConv /\ [][NextConv]_vars

TypeOKConv ==
    conv.fn \in {"declared", "remote", "parameters", "expand", "flatten",
                 "expand-flatten", "flatten-expand", "expand-parameters"}

-----------------------------------------------------------------------------
(* Properties.  In a state where op is a handler, calls holds the calls that  *)
(* handler issued, each with the record as it was then, d the record as the   *)
(* handler left it, and result what it returned.                              *)

Handlers == {"Create", "Read", "Update", "Delete"}

LastCall == calls[Len(calls)]

IsDescribe(c) == c.api = "DescribeAssociation"

\* a tracked field of the record differs from its previously observed value
TrackedChange(rec) == \E f \in TrackedFields : rec.old[f] # rec.new[f]

\* the value of a *string equals a string field of the record
SameString(p, v) == IF p = NilStr THEN v = "" ELSE v = p

\* a remote parameter map holds what a record parameter map declares
SameParameters(remoteParams, params) ==
    /\ DOMAIN remoteParams = DOMAIN params
    /\ \A k \in DOMAIN params : remoteParams[k] = <<params[k]>>

\* a remote target list holds what a record target list declares
SameTargets(remoteTargets, targets) ==
    /\ Len(remoteTargets) = Len(targets)
    /\ \A i \in DOMAIN targets :
          /\ remoteTargets[i].Key = targets[i].key
          /\ remoteTargets[i].Values = targets[i].values

\* a remote output location holds what the record's output_location declares
SameOutputLocation(location, blocks) ==
    IF location = <<>> THEN blocks = <<>>
    ELSE /\ Len(blocks) = 1
         /\ location[1].OutputS3BucketName = blocks[1].s3_bucket_name
         /\ SameString(location[1].OutputS3KeyPrefix, blocks[1].s3_key_prefix)

\* C1: when DescribeAssociation fails with AssociationDoesNotExist, Read
\* returns success and the record's identifier is cleared
C1_ReadNotFound ==
    (op \in Handlers /\ IsDescribe(LastCall)
        /\ LastCall.resp.err = ErrCodeAssociationDoesNotExist)
    => (result = Ok /\ d.id = "")

\* a Read of a record with an identifier met the not-found error
C1_Witness ==
    /\ op = "Read"
    /\ LastCall.resp.err = ErrCodeAssociationDoesNotExist
    /\ LastCall.rec.id # ""
    /\ result = Ok
    /\ d.id = ""

\* the identifier a CreateAssociation response carries, if it carries one
CreatedId(c) ==
    IF c.resp.err = "" /\ c.resp.desc # <<>> THEN c.resp.desc[1].AssociationId
    ELSE NilStr

\* C2: when CreateAssociation succeeds with identifier X, the record's
\* identifier and association_id are both X when DescribeAssociation is
\* issued, and Create issues DescribeAssociation keyed by X
C2_CreateSuccessOrdering ==
    (op = "Create" /\ CreatedId(calls[1]) # NilStr)
    => /\ Len(calls) = 2
       /\ calls[1].api = "CreateAssociation"
       /\ IsDescribe(calls[2])
       /\ calls[2].rec.id = CreatedId(calls[1])
       /\ calls[2].rec.new.association_id = CreatedId(calls[1])
       /\ calls[2].input.AssociationId = CreatedId(calls[1])

\* a Create whose CreateAssociation succeeded, and which read the record back
C2_Witness ==
    /\ op = "Create"
    /\ CreatedId(calls[1]) \in Ids
    /\ calls[1].rec.id = ""
    /\ calls[2].input.AssociationId = CreatedId(calls[1])
    /\ result = Ok
    /\ d.id = CreatedId(calls[1])

\* C3: when CreateAssociation returns an error or a response without a
\* descriptor, Create returns an error, the record keeps no identifier,
\* association_id is not written and no DescribeAssociation is issued
C3_CreateFailure ==
    (op = "Create" /\ (calls[1].resp.err # "" \/ calls[1].resp.desc = <<>>))
    => /\ result \in Errors
       /\ d.id = ""
       /\ d = calls[1].rec
       /\ d.new.association_id = ""
       /\ \A i \in DOMAIN calls : ~IsDescribe(calls[i])

\* a Create whose CreateAssociation answered without a descriptor
C3_Witness ==
    /\ op = "Create"
    /\ calls[1].resp.err = ""
    /\ calls[1].resp.desc = <<>>
    /\ result = ErrNilDescription
    /\ d.id = ""

\* the remote association holds, for each tracked field the record sets, the
\* value the record declares
Converged(fields, association) ==
    /\ GetOkString(fields.association_name)
          => association.AssociationName = fields.association_name
    /\ GetOkString(fields.document_version)
          => association.DocumentVersion = fields.document_version
    /\ GetOkString(fields.schedule_expression)
          => association.ScheduleExpression = fields.schedule_expression
    /\ GetOkMap(fields.parameters)
          => SameParameters(association.Parameters, fields.parameters)
    /\ GetOkList(fields.targets)
          => SameTargets(association.Targets, fields.targets)
    /\ GetOkList(fields.output_location)
          => SameOutputLocation(association.OutputLocation, fields.output_location)

\* the association a successful Create or Update was about
AppliedId ==
    IF op = "Create" THEN CreatedId(calls[1]) ELSE calls[1].input.AssociationId

\* C4: after a successful Create or Update, the remote association holds the
\* declared value of every tracked field the record sets
C4_Convergence ==
    (op \in {"Create", "Update"} /\ result = Ok)
    => /\ Stored(remote, AppliedId)
       /\ Converged(calls[1].rec.new, remote[AppliedId][1])

\* the same, for the handlers invoked with a change of a tracked field
C4_ConvergenceWhenChanged ==
    (op \in {"Create", "Update"} /\ result = Ok
        /\ (op = "Update" => TrackedChange(calls[1].rec)))
    => /\ Stored(remote, AppliedId)
       /\ Converged(calls[1].rec.new, remote[AppliedId][1])

\* the request carries each tracked field the record sets, with its value,
\* and leaves out each one the record does not set
CarriesWhatIsSet(input, fields) ==
    /\ input.AssociationName = OptString(fields.association_name)
    /\ input.DocumentVersion = OptString(fields.document_version)
    /\ input.ScheduleExpression = OptString(fields.schedule_expression)
    /\ SameParameters(input.Parameters, fields.parameters)
    /\ SameTargets(input.Targets, fields.targets)
    /\ IF GetOkList(fields.output_location)
       THEN /\ input.OutputLocation # <<>>
            /\ SameOutputLocation(input.OutputLocation, fields.output_location)
       ELSE input.OutputLocation = <<>>

\* the request has nothing but the association identifier
OnlyIdentifier(input) ==
    /\ input.AssociationName = NilStr
    /\ input.DocumentVersion = NilStr
    /\ input.ScheduleExpression = NilStr
    /\ DOMAIN input.Parameters = {}
    /\ Len(input.Targets) = 0
    /\ input.OutputLocation = <<>>

\* C5: when a tracked field differs from its previously observed value, the
\* UpdateAssociation request carries the identifier and every tracked field
\* that is set, changed or not, and omits every one that is not set
C5_UpdateRequestWhenChanged ==
    (op = "Update" /\ TrackedChange(calls[1].rec))
    => /\ calls[1].api = "UpdateAssociation"
       /\ calls[1].input.AssociationId = calls[1].rec.id
       /\ CarriesWhatIsSet(calls[1].input, calls[1].rec.new)

\* an Update that changed one field, kept another that is set, and dropped a
\* third that was set before
C5_Witness ==
    /\ op = "Update"
    /\ \E f, g, h \in TrackedStrings :
          /\ HasChange(calls[1].rec, f) /\ GetOkString(calls[1].rec.new[f])
          /\ ~HasChange(calls[1].rec, g) /\ GetOkString(calls[1].rec.new[g])
          /\ GetOkString(calls[1].rec.old[h]) /\ ~GetOkString(calls[1].rec.new[h])
    /\ calls[1].input.AssociationName # NilStr

HoldsDescriptor(fields, association) ==
    /\ SameString(association.AssociationName, fields.association_name)
    /\ SameString(association.InstanceId, fields.instance_id)
    /\ SameString(association.Name, fields.name)
    /\ SameParameters(association.Parameters, fields.parameters)
    /\ SameString(association.AssociationId, fields.association_id)
    /\ SameString(association.ScheduleExpression, fields.schedule_expression)
    /\ SameString(association.DocumentVersion, fields.document_version)
    /\ SameTargets(association.Targets, fields.targets)
    /\ SameOutputLocation(association.OutputLocation, fields.output_location)

GotDescriptor(c) == IsDescribe(c) /\ c.resp.err = "" /\ c.resp.desc # <<>>

\* C7: after a Read whose response has a descriptor, every observed field of
\* the record equals the value of the response, and the identifier is unchanged
C7_ReadOverwrites ==
    (op \in Handlers /\ GotDescriptor(LastCall))
    => /\ HoldsDescriptor(d.new, LastCall.resp.desc[1])
       /\ d.id = LastCall.rec.id

\* C8: when DescribeAssociation succeeds without a descriptor, Read returns
\* the error "AssociationDescription was nil", keeps the identifier and writes
\* no field of the record
C8_ReadMalformed ==
    (op \in Handlers /\ IsDescribe(LastCall)
        /\ LastCall.resp.err = "" /\ LastCall.resp.desc = <<>>)
    => /\ result = ErrNilDescription
       /\ d.id = LastCall.rec.id
       /\ d = LastCall.rec

\* a Read of a record with an identifier got a response without a descriptor
C8_Witness ==
    /\ op = "Read"
    /\ LastCall.resp.err = ""
    /\ LastCall.resp.desc = <<>>
    /\ d.id # ""
    /\ result = ErrNilDescription

\* the one remote error a handler answers with success
IsNotFoundOnDescribe(c) ==
    IsDescribe(c) /\ c.resp.err = ErrCodeAssociationDoesNotExist

\* C9: in every handler, a remote call that returns an error makes the
\* handler return an error, except DescribeAssociation failing with
\* AssociationDoesNotExist
C9_ErrorPropagation ==
    op \in Handlers
    => \A i \in DOMAIN calls :
          (calls[i].resp.err # "" /\ ~IsNotFoundOnDescribe(calls[i]))
          => result \in Errors

\* a Delete whose DeleteAssociation failed
C9_Witness ==
    /\ op = "Delete"
    /\ calls[1].resp.err # ""
    /\ result = ErrDelete

\* C10: when UpdateAssociation returns an error, Update returns an error,
\* issues no DescribeAssociation and leaves the record as it was
C10_UpdateFailure ==
    (op = "Update" /\ calls[1].resp.err # "")
    => /\ result \in Errors
       /\ \A i \in DOMAIN calls : ~IsDescribe(calls[i])
       /\ d = calls[1].rec

\* an Update that failed on a record whose declared fields differ from the
\* observed ones
C10_Witness ==
    /\ op = "Update"
    /\ calls[1].resp.err # ""
    /\ result = ErrUpdate
    /\ TrackedChange(d)
    /\ d.id # ""

\* C11: Delete issues exactly one DeleteAssociation, keyed by the record's
\* association_id, and no other remote call; when the call succeeds Delete
\* returns success and when it fails Delete returns an error, and either way
\* the record's identifier and fields are left as they were
C11_Delete ==
    op = "Delete"
    => /\ Len(calls) = 1
       /\ calls[1].api = "DeleteAssociation"
       /\ calls[1].input = [AssociationId |-> calls[1].rec.new.association_id]
       /\ calls[1].resp.err = "" => result = Ok
       /\ calls[1].resp.err # "" => result \in Errors
       /\ d = calls[1].rec

\* a Delete that succeeded on a record with an identifier, and left it alone
C11_Witness ==
    /\ op = "Delete"
    /\ calls[1].resp.err = ""
    /\ result = Ok
    /\ d.id \in Ids
    /\ d.new.association_id = d.id
    /\ remote[d.id] = <<>>

\* name or instance_id of the record differs from its previously observed value
ForceNewChange(rec) ==
    rec.old.name # rec.new.name \/ rec.old.instance_id # rec.new.instance_id

\* C12: a change of name or instance_id is never routed through Update: the
\* record that holds it and has an identifier is handed to Delete, a record
\* without an identifier is handed to Create alone, and no UpdateAssociation
\* request carries name or instance_id
C12_ForceNew ==
    /\ op = "Update"
       => /\ ~ForceNewChange(calls[1].rec)
          /\ calls[1].api = "UpdateAssociation"
          /\ DOMAIN calls[1].input \cap {"Name", "InstanceId"} = {}
    /\ (op \in Handlers /\ calls[1].rec.id # "" /\ ForceNewChange(calls[1].rec))
       => op = "Delete"
    /\ (op \in Handlers /\ calls[1].rec.id = "") => op = "Create"

\* a record whose declared name differs from the observed one was destroyed,
\* so that the next apply creates it anew
C12_Witness ==
    /\ op = "Delete"
    /\ result = Ok
    /\ calls[1].rec.id \in Ids
    /\ calls[1].rec.old.name # calls[1].rec.new.name
    /\ PersistedId = ""

\* C13: for every output_location x of zero blocks or one block,
\* flatten(expand(x)) is x, and for every remote output location y, absent or
\* an object with or without a key prefix, expand(flatten(y)) is y
C13_RoundTrip ==
    /\ conv.fn = "expand-flatten"
       => /\ ~conv.res.panics
          /\ conv.res.blocks.elems = conv.arg.elems
    /\ conv.fn = "flatten-expand"
       => /\ ~conv.res.panics
          /\ conv.res.ptr = conv.arg

\* the round trips hold for every input but the slice of zero blocks that is
\* not nil, which config[0] cannot index
C13_RoundTripButEmptySlice ==
    /\ (conv.fn = "expand-flatten" /\ conv.arg # Slice(<<>>))
       => /\ ~conv.res.panics
          /\ conv.res.blocks = conv.arg
    /\ conv.fn = "flatten-expand"
       => /\ ~conv.res.panics
          /\ conv.res.ptr = conv.arg

\* C14: expand of nil or of a list of zero blocks produces no remote object
\* and does not fail; flatten of an absent remote object produces a list of
\* zero blocks
C14_Absence ==
    /\ (conv.fn = "expand" /\ Len(conv.arg.elems) = 0)
       => /\ ~conv.res.panics
          /\ conv.res.ptr = <<>>
    /\ (conv.fn = "flatten" /\ conv.arg = <<>>)
       => Len(conv.res.elems) = 0

\* what holds of absence: expand of the nil slice is nil, flatten of nil is
\* the nil slice
C14_AbsenceOfNil ==
    /\ (conv.fn = "expand" /\ conv.arg = NilSlice)
       => /\ ~conv.res.panics
          /\ conv.res.ptr = <<>>
    /\ (conv.fn = "flatten" /\ conv.arg = <<>>)
       => conv.res = NilSlice

\* a block declares no key prefix: it lacks the key, or holds the zero value
\* the record gives a key that is not declared
NoKeyPrefix(block) ==
    "s3_key_prefix" \notin DOMAIN block \/ block["s3_key_prefix"] = ""

\* C15: for a block with a bucket name and no key prefix, expand produces a
\* remote object whose OutputS3KeyPrefix is unset, never an empty string; for
\* a remote object whose OutputS3KeyPrefix is unset, flatten produces a block
\* with no s3_key_prefix key
C15_KeyPrefixOmission ==
    /\ (conv.fn = "expand" /\ Len(conv.arg.elems) = 1 /\ NoKeyPrefix(conv.arg.elems[1]))
       => /\ ~conv.res.panics
          /\ conv.res.ptr # <<>>
          /\ conv.res.ptr[1].OutputS3BucketName = conv.arg.elems[1]["s3_bucket_name"]
          /\ conv.res.ptr[1].OutputS3KeyPrefix = NilStr
    /\ (conv.fn = "flatten" /\ conv.arg # <<>>
            /\ conv.arg[1].OutputS3KeyPrefix = NilStr)
       => /\ Len(conv.res.elems) = 1
          /\ DOMAIN conv.res.elems[1] = {"s3_bucket_name"}

\* the omission holds of a block that lacks the key, and of flatten
C15_KeyPrefixOmissionWhenKeyLacks ==
    /\ (conv.fn = "expand" /\ Len(conv.arg.elems) = 1
            /\ "s3_key_prefix" \notin DOMAIN conv.arg.elems[1])
       => /\ ~conv.res.panics
          /\ conv.res.ptr # <<>>
          /\ conv.res.ptr[1].OutputS3KeyPrefix = NilStr
    /\ (conv.fn = "flatten" /\ conv.arg # <<>>
            /\ conv.arg[1].OutputS3KeyPrefix = NilStr)
       => /\ Len(conv.res.elems) = 1
          /\ DOMAIN conv.res.elems[1] = {"s3_bucket_name"}

\* in the handlers: a Create of a record that declares a bucket and no key
\* prefix sends the empty string as key prefix
C15_CreateSendsEmptyKeyPrefix ==
    /\ op = "Create"
    /\ calls[1].rec.new.output_location = <<[s3_bucket_name |-> "b", s3_key_prefix |-> ""]>>
    /\ calls[1].input.OutputLocation[1].OutputS3KeyPrefix = ""

\* C16: expandSSMDocumentParameters of a map m has exactly the keys of m and
\* maps each key k to the one-element sequence <<m[k]>>; the empty map goes
\* to the empty map
C16_ExpandParameters ==
    conv.fn = "expand-parameters"
    => /\ DOMAIN conv.res = DOMAIN conv.arg
       /\ \A k \in DOMAIN conv.arg :
             /\ Len(conv.res[k]) = 1
             /\ conv.res[k][1] = conv.arg[k]
       /\ DOMAIN conv.arg = {} => conv.res = <<>>

\* a map of two keys, one of them with the empty string, was expanded
C16_Witness ==
    /\ conv.fn = "expand-parameters"
    /\ conv.arg = [p |-> "a", q |-> ""]
    /\ conv.res = [p |-> <<"a">>, q |-> <<"">>]

\* C17: in every reachable state where the record has an identifier, its
\* association_id field equals the identifier, so that the UpdateAssociation
\* and DeleteAssociation requests address the association that Read describes
C17_IdentifierInvariant ==
    /\ d.id # "" => d.new.association_id = d.id
    /\ \A i \in DOMAIN calls :
          /\ calls[i].rec.id # "" => calls[i].rec.new.association_id = calls[i].rec.id
          /\ calls[i].api \in {"UpdateAssociation", "DeleteAssociation", "DescribeAssociation"}
             => calls[i].input.AssociationId = calls[i].rec.id

\* an Update addressed the association by association_id, then Read described
\* the same association by the identifier, and the record keeps both
C17_Witness ==
    /\ op = "Update"
    /\ Len(calls) = 2
    /\ calls[1].input.AssociationId = calls[2].input.AssociationId
    /\ calls[2].resp.err = ""
    /\ d.id \in Ids
    /\ d.new.association_id = d.id

\* C18: whenever Create returns an error, for any reason, the error of the
\* DescribeAssociation of the delegated Read included, the record has no
\* identifier
C18_CreateAllOrNothing ==
    (op = "Create" /\ result \in Errors) => d.id = ""

\* C18 as the code has it: when Create returns an error, the record has no
\* identifier if CreateAssociation failed or answered without a descriptor,
\* and has the identifier of the created association, in association_id
\* too, if the error is that of the delegated Read
C18_CreateErrorIdentifier ==
    (op = "Create" /\ result \in Errors)
    => IF CreatedId(calls[1]) = NilStr
       THEN Len(calls) = 1 /\ d.id = ""
       ELSE /\ Len(calls) = 2
            /\ IsDescribe(calls[2])
            /\ d.id = CreatedId(calls[1])
            /\ d.new.association_id = CreatedId(calls[1])
            /\ remote[d.id] # <<>>

\* a Create whose CreateAssociation succeeded and whose DescribeAssociation
\* failed: it returns the error and the record keeps the identifier
C18_Witness ==
    /\ op = "Create"
    /\ result = ErrRead
    /\ calls[1].resp.err = ""
    /\ calls[2].resp.err = ErrCodeInternalServerError
    /\ d.id = CreatedId(calls[1])
    /\ d.id \in Ids

\* C19: whenever Create returns success, the record's identifier is not
\* empty and equals the identifier of the CreateAssociation response, and
\* association_id equals it
C19_CreateSuccess ==
    (op = "Create" /\ result = Ok)
    => /\ d.id # ""
       /\ d.id = CreatedId(calls[1])
       /\ d.new.association_id = d.id

\* what holds of a successful Create: it is so unless its Read met the
\* not-found error, and then the record has no identifier while
\* association_id keeps that of the response
C19_CreateSuccessUnlessNotFound ==
    (op = "Create" /\ result = Ok)
    => /\ Len(calls) = 2
       /\ d.new.association_id = CreatedId(calls[1])
       /\ IF IsNotFoundOnDescribe(calls[2]) THEN d.id = ""
          ELSE d.id = CreatedId(calls[1])

\* a Create returned success without an identifier, the association it
\* created being there
C19_CreateSuccessNoIdentifier ==
    /\ op = "Create"
    /\ result = Ok
    /\ d.id = ""
    /\ CreatedId(calls[1]) \in Ids
    /\ remote[CreatedId(calls[1])] # <<>>

\* the remote calls a handler issued, by name and in order
Issued == [i \in DOMAIN calls |-> calls[i].api]

\* C20: Create issues one CreateAssociation and then at most one
\* DescribeAssociation, Update one UpdateAssociation and then at most one
\* DescribeAssociation, Read one DescribeAssociation, Delete one
\* DeleteAssociation; no remote call follows one that failed, and the
\* mutating call always precedes the describe
C20_BoundedCalls ==
    /\ op = "Create"
       => Issued \in {<<"CreateAssociation">>,
                      <<"CreateAssociation", "DescribeAssociation">>}
    /\ op = "Update"
       => Issued \in {<<"UpdateAssociation">>,
                      <<"UpdateAssociation", "DescribeAssociation">>}
    /\ op = "Read" => Issued = <<"DescribeAssociation">>
    /\ op = "Delete" => Issued = <<"DeleteAssociation">>
    /\ op \in Handlers
       => \A i \in DOMAIN calls : calls[i].resp.err # "" => i = Len(calls)

\* an Update whose UpdateAssociation succeeded and whose DescribeAssociation
\* failed: two calls, the failed one last
C20_Witness ==
    /\ op = "Update"
    /\ Issued = <<"UpdateAssociation", "DescribeAssociation">>
    /\ calls[1].resp.err = ""
    /\ calls[2].resp.err = ErrCodeInternalServerError
    /\ result = ErrRead

====
